---- MODULE Spec2Model ----
(***************************************************************************)
(* ABI-driven calldata encoder, response decoder and Contract facade of    *)
(* src/src/contract.ts, and the SessionAccount execute / estimateFee flow  *)
(* of src/unnamed/part_001.                                                *)
(***************************************************************************)
EXTENDS Integers, Sequences, FiniteSets, TLC

VARIABLES
    abi,          \* Contract.abi
    structs,      \* Contract.structs
    connectedTo,  \* Contract.connectedTo
    method,       \* codec: the method whose args / response are processed
    args,         \* codec: the Args mapping handed to compileCalldata
    calldata,     \* codec: what compileCalldata returned
    response,     \* codec: the flat response handed to parseResponse
    decoded,      \* codec: what parseResponse returned
    cpc,          \* codec: position of the encode / decode pipeline
    last,         \* facade: the latest invoke / call, its inputs and its outcome
    inflight,     \* transport: the requests handed over and not yet completed
    delivered,    \* facade: the latest completion handed back to a caller
    spc,          \* session account: position of execute / estimateFee
    exec,         \* session account: the arguments and locals of execute
    est,          \* session account: the arguments and locals of estimateFee
    provider      \* session account: the requests the provider received

contractVars == <<abi, structs, connectedTo>>
codecVars == <<method, args, calldata, response, decoded, cpc>>
facadeVars == <<last, inflight, delivered>>
sessionVars == <<spc, exec, est, provider>>
vars == <<contractVars, codecVars, facadeVars, sessionVars>>

(***************************************************************************)
(* Bounds of the model.                                                    *)
(***************************************************************************)
MaxFelt == 2      \* felt numerals range over 0..MaxFelt
MaxLen  == 2      \* longest felt* argument
MaxResp == 4      \* longest response of the transport

(***************************************************************************)
(* JavaScript primitives.  A string is modelled by the numeral form it is  *)
(* written in and the number it denotes: "10" is Dec(10), "0xa" is Hex(10).*)
(***************************************************************************)
Dec(n) == [fmt |-> "dec", n |-> n]
Hex(n) == [fmt |-> "hex", n |-> n]
Num(n) == [fmt |-> "num", n |-> n]              \* a JS number
NotANumber == [fmt |-> "text", n |-> 0]         \* the string 'not-a-number'
StructTag  == [fmt |-> "struct", n |-> 0]       \* the string 'struct'
Undefined  == [fmt |-> "undefined", n |-> 0]    \* the value undefined

(* Values of an Args mapping: a primitive, an array of primitives, or an   *)
(* object (a sequence of [name, val] entries in insertion order).          *)
PrimV(s)    == [kind |-> "prim", prim |-> s, items |-> <<>>, fields |-> <<>>]
ArrV(items) == [kind |-> "arr", prim |-> Undefined, items |-> items, fields |-> <<>>]
ObjV(m)     == [kind |-> "obj", prim |-> Undefined, items |-> <<>>, fields |-> m]
UndefV      == PrimV(Undefined)

Entry(k, v) == [name |-> k, val |-> v]
Has(m, k) == \E i \in 1..Len(m) : m[i].name = k
Get(m, k) == IF Has(m, k) THEN m[CHOOSE i \in 1..Len(m) : m[i].name = k].val ELSE UndefV
Put(m, k, v) ==
    IF Has(m, k)
    THEN [i \in 1..Len(m) |-> IF m[i].name = k THEN Entry(k, v) ELSE m[i]]
    ELSE Append(m, Entry(k, v))

RECURSIVE Flatten(_)
Flatten(ss) == IF ss = <<>> THEN <<>> ELSE Head(ss) \o Flatten(Tail(ss))

(***************************************************************************)
(* Felt value normalizer (utils/number).                                   *)
(***************************************************************************)
toBN(x) ==
    IF x.fmt \in {"dec", "hex", "num"}
    THEN [ok |-> TRUE, n |-> x.n]
    ELSE [ok |-> FALSE, n |-> 0]

BNtoString(bn) == Dec(bn.n)

parseFelt(candidate) ==
    IF toBN(candidate).ok
    THEN [err |-> "", bn |-> toBN(candidate)]
    ELSE [err |-> "Couldnt parse felt", bn |-> toBN(candidate)]

isFelt(candidate) == parseFelt(candidate).err = ""

(***************************************************************************)
(* compileCalldata                                                         *)
(***************************************************************************)
ParseError == "parse error"

Normalized(prims) == [i \in 1..Len(prims) |-> BNtoString(toBN(prims[i]))]
AllParse(prims) == \A i \in 1..Len(prims) : toBN(prims[i]).ok

MemberPrims(fields) ==
    LET kept == SelectSeq(fields, LAMBDA e : e.name # "type")
    IN  [i \in 1..Len(kept) |-> IF kept[i].val.kind = "prim" THEN kept[i].val.prim ELSE NotANumber]

(* A length-suffix encoder: the elements first, their count last.          *)
CompileOperandsLengthLast(value) ==
    IF value.kind = "arr"
    THEN value.items \o <<Num(Len(value.items))>>
    ELSE IF value.kind = "obj" /\ Has(value.fields, "type")
    THEN MemberPrims(value.fields)
    ELSE IF value.kind = "prim" THEN <<value.prim>> ELSE <<NotANumber>>

(* The operands handed to toBN for one argument value, in emission order.  *)
CompileOperands(value) ==
    IF value.kind = "arr"
    THEN <<Num(Len(value.items))>> \o value.items
    ELSE IF value.kind = "obj" /\ Has(value.fields, "type")
    THEN MemberPrims(value.fields)
    ELSE IF value.kind = "prim" THEN <<value.prim>> ELSE <<NotANumber>>

compileCalldata(a) ==
    LET operands == [i \in 1..Len(a) |-> CompileOperands(a[i].val)]
    IN  IF \A i \in 1..Len(a) : AllParse(operands[i])
        THEN [err |-> "", val |-> Flatten([i \in 1..Len(a) |-> Normalized(operands[i])])]
        ELSE [err |-> ParseError, val |-> <<>>]

(***************************************************************************)
(* ABI entries.                                                            *)
(***************************************************************************)
Fld(name, type) ==
    [type |-> type, name |-> name, stateMutability |-> "",
     inputs |-> <<>>, outputs |-> <<>>, members |-> <<>>]
Fn(name, mut, inputs, outputs) ==
    [type |-> "function", name |-> name, stateMutability |-> mut,
     inputs |-> inputs, outputs |-> outputs, members |-> <<>>]
St(name, members) ==
    [type |-> "struct", name |-> name, stateMutability |-> "",
     inputs |-> <<>>, outputs |-> <<>>, members |-> members]

TheAbi ==
    << St("Point", <<Fld("x", "felt"), Fld("y", "felt")>>),
       St("Seg", <<Fld("p", "Point"), Fld("w", "felt")>>),
       St("Bag", <<Fld("items", "felt*")>>),
       St("Box", <<Fld("g", "Ghost"), Fld("v", "felt")>>),
       Fn("balance_of", "view", <<Fld("user", "felt")>>, <<Fld("res", "felt")>>),
       Fn("mint", "", <<Fld("recipient", "felt"), Fld("amount", "felt")>>, <<>>),
       Fn("store", "", <<Fld("key", "felt"), Fld("data_len", "felt"), Fld("data", "felt*")>>, <<>>),
       Fn("aggregate", "view", <<Fld("calls_len", "felt"), Fld("calls", "felt*")>>,
          <<Fld("block_number", "felt"), Fld("result_len", "felt"), Fld("result", "felt*")>>),
       Fn("echo", "view", <<Fld("a", "felt"), Fld("b", "felt")>>,
          <<Fld("a", "felt"), Fld("b", "felt")>>),
       Fn("echo_arr", "view", <<Fld("data_len", "felt"), Fld("data", "felt*")>>,
          <<Fld("data_len", "felt"), Fld("data", "felt*")>>),
       Fn("echo_point", "view", <<Fld("p", "Point")>>, <<Fld("p", "Point")>>),
       Fn("get_point", "view", <<>>, <<Fld("p", "Point"), Fld("r", "felt")>>),
       Fn("get_seg", "view", <<>>, <<Fld("s", "Seg"), Fld("t", "felt")>>),
       Fn("no_len", "view", <<>>, <<Fld("data", "felt*")>>),
       Fn("late_len", "view", <<>>, <<Fld("data", "felt*"), Fld("data_len", "felt")>>),
       Fn("get_bag", "view", <<>>, <<Fld("items_len", "felt"), Fld("b", "Bag")>>),
       Fn("ghost", "view", <<>>, <<Fld("g", "Ghost"), Fld("r", "felt")>>),
       Fn("get_box", "view", <<>>, <<Fld("b", "Box"), Fld("r", "felt")>>) >>

(* Contract.constructor: the struct entries indexed by name, the last entry *)
(* of a name winning.                                                       *)
StructsOf(a) ==
    LET idx == {i \in 1..Len(a) : a[i].type = "struct"}
        lastOf(n) == CHOOSE i \in idx : a[i].name = n /\ \A j \in idx : a[j].name = n => j <= i
    IN  [n \in {a[i].name : i \in idx} |-> a[lastOf(n)]]

(***************************************************************************)
(* The response iterator: response.flat()[Symbol.iterator]().  A response  *)
(* is a string[], which flat() leaves as it is.  reads is the history of   *)
(* the positions next() has handed out.                                    *)
(***************************************************************************)
Iter(resp) == [resp |-> resp, pos |-> 0, reads |-> <<>>]

IterNext(it) ==
    IF it.pos < Len(it.resp)
    THEN [value |-> it.resp[it.pos + 1],
          it |-> [it EXCEPT !.pos = @ + 1, !.reads = Append(@, it.pos + 1)]]
    ELSE [value |-> Undefined, it |-> it]

DefinedAcc(m) == [defined |-> TRUE, m |-> m]
NoAcc == [defined |-> FALSE, m |-> <<>>]

HasOutputs(element) == element.type = "function"

(* An off-by-one loop: while (arr.length <= lengthFieldInNumber).          *)
RECURSIVE ReadWhileInclusive(_, _, _)
ReadWhileInclusive(it, n, arr) ==
    IF Len(arr) <= n
    THEN LET itter == IterNext(it) IN ReadWhileInclusive(itter.it, n, Append(arr, itter.value))
    ELSE [arr |-> arr, it |-> it]

(* while (arr.length < lengthFieldInNumber) arr.push(next().value)         *)
RECURSIVE ReadWhile(_, _, _)
ReadWhile(it, n, arr) ==
    IF Len(arr) < n
    THEN LET itter == IterNext(it) IN ReadWhile(itter.it, n, Append(arr, itter.value))
    ELSE [arr |-> arr, it |-> it]

(* A decoder that takes a missing length sibling for the count zero.       *)
LengthFieldOrZero(element, currentAcc) ==
    LET lengthFieldInHex ==
            IF currentAcc.defined
            THEN Get(currentAcc.m, element.name \o "_len")
            ELSE UndefV
    IN  IF lengthFieldInHex = UndefV
        THEN toBN(Num(0))
        ELSE IF lengthFieldInHex.kind = "prim"
        THEN toBN(lengthFieldInHex.prim)
        ELSE toBN(NotANumber)

(* toBN(currentAcc?.[`${element.name}_len`])                               *)
LengthField(element, currentAcc) ==
    LET lengthFieldInHex ==
            IF currentAcc.defined
            THEN Get(currentAcc.m, element.name \o "_len")
            ELSE UndefV
    IN  IF lengthFieldInHex.kind = "prim"
        THEN toBN(lengthFieldInHex.prim)
        ELSE toBN(NotANumber)

RECURSIVE parseResponseField(_, _, _)
RECURSIVE parseMembers(_, _, _)
RECURSIVE parseMembersCursorByValue(_, _, _)

(* A reduce that hands every member the cursor as it stood at the start of  *)
(* the level, as a copy of the iterator would.                              *)
parseMembersCursorByValue(entries, it, acc) ==
    IF entries = <<>>
    THEN [err |-> "", val |-> ObjV(acc), it |-> it]
    ELSE LET r == parseResponseField(Head(entries), it, DefinedAcc(acc))
         IN  IF r.err # ""
             THEN r
             ELSE parseMembersCursorByValue(Tail(entries), it, Put(acc, Head(entries).name, r.val))

(* entries.reduce((acc, member) => ({...acc, [member.name]: parse(member, it, acc)}), {}) *)
parseMembers(entries, it, acc) ==
    IF entries = <<>>
    THEN [err |-> "", val |-> ObjV(acc), it |-> it]
    ELSE LET r == parseResponseField(Head(entries), it, DefinedAcc(acc))
         IN  IF r.err # ""
             THEN r
             ELSE parseMembers(Tail(entries), r.it, Put(acc, Head(entries).name, r.val))

parseResponseField(element, responseIterator, currentAcc) ==
    IF element.type = "felt"
    THEN LET itter == IterNext(responseIterator)
         IN  [err |-> "", val |-> PrimV(itter.value), it |-> itter.it]
    ELSE IF element.type = "felt*"
    THEN LET lengthField == LengthField(element, currentAcc)
             got == ReadWhile(responseIterator, lengthField.n, <<>>)
         IN  IF ~lengthField.ok
             THEN [err |-> ParseError, val |-> UndefV, it |-> responseIterator]
             ELSE [err |-> "", val |-> ArrV(got.arr), it |-> got.it]
    ELSE LET entries ==
                 IF element.type \in DOMAIN structs
                 THEN structs[element.type].members
                 ELSE IF HasOutputs(element) THEN element.outputs ELSE <<>>
         IN  parseMembers(entries, responseIterator, <<>>)

(* this.abi.find((abi) => abi.name === method)                             *)
FindByName(m) ==
    IF \E i \in 1..Len(abi) : abi[i].name = m
    THEN LET i == CHOOSE i \in 1..Len(abi) :
                      abi[i].name = m /\ \A j \in 1..(i - 1) : abi[j].name # m
         IN  [found |-> TRUE, entry |-> abi[i]]
    ELSE [found |-> FALSE, entry |-> Fld("", "")]

TypeError == "TypeError"

parseResponse(m, resp) ==
    LET methodAbi == FindByName(m)
    IN  IF ~methodAbi.found
        THEN [err |-> TypeError, val |-> UndefV, it |-> Iter(resp)]
        ELSE parseResponseField(methodAbi.entry, Iter(resp), NoAcc)

(***************************************************************************)
(* Inputs of the codec.                                                    *)
(***************************************************************************)
Numerals == {Dec(n) : n \in 0..MaxFelt} \cup {Hex(n) : n \in 0..MaxFelt}
WireFelts == {Hex(n) : n \in 0..MaxFelt}

SeqsUpTo(S, k) == UNION {[1..n -> S] : n \in 0..k}

FunctionNames == {abi[i].name : i \in {j \in 1..Len(abi) : abi[j].type = "function"}}

FunctionAbiOf(m) ==
    abi[CHOOSE i \in 1..Len(abi) :
            /\ abi[i].name = m /\ abi[i].type = "function"
            /\ \A j \in 1..(i - 1) : ~(abi[j].name = m /\ abi[j].type = "function")]

(* The values a caller may supply for an input of the given type.          *)
ValuesOfType(t) ==
    IF t = "felt" THEN {PrimV(s) : s \in Numerals}
    ELSE IF t = "felt*" THEN {ArrV(s) : s \in SeqsUpTo(Numerals, MaxLen)}
    ELSE IF t \in DOMAIN structs
    THEN LET ms == structs[t].members
         IN  {ObjV(<<Entry("type", PrimV(StructTag))>>
                   \o [i \in 1..Len(ms) |-> Entry(ms[i].name, PrimV(f[i]))])
                 : f \in [1..Len(ms) -> Numerals]}
    ELSE {}

(* The inputs a caller supplies: the length of a felt* input X is emitted   *)
(* by the encoder, so the X_len input is not supplied.                      *)
SuppliedInputs(inputs) ==
    SelectSeq(inputs, LAMBDA e :
        ~\E i \in 1..Len(inputs) :
            inputs[i].type = "felt*" /\ e.name = inputs[i].name \o "_len")

WellTypedArgs(inputs) ==
    LET sup == SuppliedInputs(inputs)
    IN  {[i \in 1..Len(sup) |-> Entry(sup[i].name, v[i])] :
            v \in {w \in [1..Len(sup) -> UNION {ValuesOfType(sup[i].type) : i \in 1..Len(sup)}] :
                      \A i \in 1..Len(sup) : w[i] \in ValuesOfType(sup[i].type)}}

(* utils/stark getSelectorFromName: the entry-point selector of a name.     *)
getSelectorFromName(m) == [selectorOf |-> m]

NoRequest ==
    [type |-> "", contract_address |-> "null", calldata |-> <<>>,
     entry_point_selector |-> getSelectorFromName("")]
NoOp == [op |-> "none", method |-> "", args |-> <<>>, address |-> "null",
         error |-> "", request |-> NoRequest]

NoCalls == <<>>
NoSignature == [transactions |-> NoCalls, nonce |-> 0, maxFee |-> 0, version |-> ""]
NoExecuteRequest ==
    [sent |-> FALSE, calldata |-> [calls |-> NoCalls, nonce |-> 0],
     signature |-> NoSignature, maxFee |-> 0, version |-> ""]
NoExec == [calls |-> NoCalls, nonceGiven |-> FALSE, maxFeeGiven |-> FALSE,
           transactions |-> NoCalls, nonce |-> 0, maxFee |-> 0, estimated |-> FALSE,
           signature |-> NoSignature]
NoEst == [caller |-> "", calls |-> NoCalls, nonceGiven |-> FALSE,
          transactions |-> NoCalls, nonce |-> 0, signature |-> NoSignature]
NoProvider == [estimateFee |-> NoExecuteRequest, invokeFunction |-> NoExecuteRequest]
SessionIdle ==
    /\ spc = "idle"
    /\ exec = NoExec
    /\ est = NoEst
    /\ provider = NoProvider

NoResult == [err |-> "", val |-> UndefV, it |-> Iter(<<>>)]
NoCalldata == [err |-> "", val |-> <<>>]
NoDelivery == [request |-> NoRequest, response |-> <<>>, result |-> NoResult]

(***************************************************************************)
(* Codec: encode an Args mapping, decode a response.                       *)
(***************************************************************************)
CodecInit ==
    /\ abi = TheAbi
    /\ structs = StructsOf(TheAbi)
    /\ connectedTo = "null"
    /\ method = ""
    /\ args = <<>>
    /\ calldata = NoCalldata
    /\ response = <<>>
    /\ decoded = NoResult
    /\ cpc = "idle"
    /\ last = NoOp
    /\ inflight = <<>>
    /\ delivered = NoDelivery
    /\ SessionIdle

ChooseArgs ==
    /\ cpc = "idle"
    /\ \E m \in FunctionNames :
        \E a \in WellTypedArgs(FunctionAbiOf(m).inputs) :
            /\ method' = m
            /\ args' = a
    /\ cpc' = "args"
    /\ UNCHANGED <<contractVars, facadeVars, sessionVars, calldata, response, decoded>>

Compile ==
    /\ cpc = "args"
    /\ calldata' = compileCalldata(args)
    /\ cpc' = "compiled"
    /\ UNCHANGED <<contractVars, facadeVars, sessionVars, method, args, response, decoded>>

(* The network echoes the calldata back as the response.                   *)
Echo ==
    /\ cpc = "compiled"
    /\ calldata.err = ""
    /\ response' = calldata.val
    /\ cpc' = "echoed"
    /\ UNCHANGED <<contractVars, facadeVars, sessionVars, method, args, calldata, decoded>>

(* The network returns some response for some method.                      *)
Receive ==
    /\ cpc = "idle"
    /\ \E m \in FunctionNames : method' = m
    /\ \E r \in SeqsUpTo(WireFelts, MaxResp) : response' = r
    /\ cpc' = "received"
    /\ UNCHANGED <<contractVars, facadeVars, sessionVars, args, calldata, decoded>>

Parse ==
    /\ cpc \in {"echoed", "received"}
    /\ decoded' = parseResponse(method, response)
    /\ cpc' = IF cpc = "echoed" THEN "roundtrip" ELSE "parsed"
    /\ UNCHANGED <<contractVars, facadeVars, sessionVars, method, args, calldata, response>>

CodecNext == ChooseArgs \/ Compile \/ Echo \/ Receive \/ Parse

CodecSpec == CodecInit /\ [][CodecNext]_vars

(***************************************************************************)
(* Properties of the codec.                                                *)
(***************************************************************************)
Outputs(m) == FunctionAbiOf(m).outputs
Inputs(m)  == FunctionAbiOf(m).inputs

(* The number of calldata elements one argument value accounts for.        *)
SegLen(v) ==
    IF v.kind = "arr" THEN Len(v.items) + 1
    ELSE IF v.kind = "obj" THEN Len(v.fields) - 1
    ELSE 1

RECURSIVE SegStart(_, _)
SegStart(a, i) == IF i = 1 THEN 0 ELSE SegStart(a, i - 1) + SegLen(a[i - 1].val)

DecimalOf(s) == Dec(s.n)
LengthThenElements(items) ==
    <<Dec(Len(items))>> \o [i \in 1..Len(items) |-> DecimalOf(items[i])]

(* C1: every felt-array argument of n elements accounts for exactly n + 1   *)
(* calldata elements: its length n first, then its n elements normalized    *)
(* and in order; an empty array gives the single element "0", an empty Args *)
(* mapping gives an empty calldata.                                         *)
C1_LengthPrefix ==
    cpc = "compiled" =>
        /\ calldata.err = ""
        /\ Len(calldata.val) = SegStart(args, Len(args) + 1)
        /\ \A i \in 1..Len(args) :
              args[i].val.kind = "arr" =>
                  SubSeq(calldata.val, SegStart(args, i) + 1, SegStart(args, i + 1))
                      = LengthThenElements(args[i].val.items)
        /\ (args = <<>> => calldata.val = <<>>)
        /\ (args = <<Entry("calls", ArrV(<<>>))>> => calldata.val = <<Dec(0)>>)

C1_Witness ==
    /\ cpc = "compiled"
    /\ method = "store"
    /\ args = <<Entry("key", PrimV(Hex(1))), Entry("data", ArrV(<<Hex(2), Dec(0)>>))>>
    /\ calldata.val = <<Dec(1), Dec(2), Dec(2), Dec(0)>>

SameShape(m) == Inputs(m) = Outputs(m) /\ Inputs(m) # <<>>

(* C2 as stated: decoding the echoed calldata returns a mapping equal to    *)
(* the args that were encoded.                                              *)
C2_RoundTripExact ==
    (cpc = "roundtrip" /\ SameShape(method)) =>
        (decoded.err = "" /\ decoded.val = ObjV(args))

(* What the wire keeps of an Args mapping: every felt as its decimal        *)
(* numeral, a struct without its type tag, a felt array X after an X_len    *)
(* entry holding its length.                                                *)
WireViewOf(e) ==
    IF e.val.kind = "arr"
    THEN <<Entry(e.name \o "_len", PrimV(Dec(Len(e.val.items)))),
           Entry(e.name, ArrV([i \in 1..Len(e.val.items) |-> DecimalOf(e.val.items[i])]))>>
    ELSE IF e.val.kind = "obj"
    THEN LET kept == SelectSeq(e.val.fields, LAMBDA f : f.name # "type")
         IN  <<Entry(e.name,
                     ObjV([i \in 1..Len(kept) |->
                              Entry(kept[i].name, PrimV(DecimalOf(kept[i].val.prim)))]))>>
    ELSE <<Entry(e.name, PrimV(DecimalOf(e.val.prim)))>>

WireView(a) == Flatten([i \in 1..Len(a) |-> WireViewOf(a[i])])

(* C2 amended: decoding the echoed calldata returns the args with every     *)
(* felt rendered as its decimal numeral, every struct's type tag dropped    *)
(* and every felt array X preceded by an X_len entry holding its length.    *)
C2_RoundTripNormalized ==
    (cpc = "roundtrip" /\ SameShape(method)) =>
        (decoded.err = "" /\ decoded.val = ObjV(WireView(args)))

C2_Witness ==
    /\ cpc = "roundtrip"
    /\ method = "echo_arr"
    /\ args = <<Entry("data", ArrV(<<Hex(2), Dec(1)>>))>>
    /\ decoded.val = ObjV(<<Entry("data_len", PrimV(Dec(2))),
                            Entry("data", ArrV(<<Dec(2), Dec(1)>>))>>)

(* A felt* field with no length sibling declared before it at its level,    *)
(* at the top level or in a struct reached from it.                         *)
RECURSIVE LacksLength(_)
LacksLength(entries) ==
    \/ \E i \in 1..Len(entries) :
          /\ entries[i].type = "felt*"
          /\ ~\E j \in 1..(i - 1) : entries[j].name = entries[i].name \o "_len"
    \/ \E i \in 1..Len(entries) :
          /\ entries[i].type \in DOMAIN structs
          /\ LacksLength(structs[entries[i].type].members)

RECURSIVE HoldsUndefined(_)
HoldsUndefined(v) ==
    \/ v.kind = "prim" /\ v.prim = Undefined
    \/ v.kind = "arr" /\ \E i \in 1..Len(v.items) : v.items[i] = Undefined
    \/ v.kind = "obj" /\ \E i \in 1..Len(v.fields) : HoldsUndefined(v.fields[i].val)

(* C5: a decode that runs out of response elements fails; no result holds   *)
(* an undefined scalar or a felt array with undefined elements.             *)
C5_ShortResponseFails ==
    (cpc = "parsed" /\ decoded.err = "") => ~HoldsUndefined(decoded.val)

RECURSIVE RefersToUnknownStruct(_)
RefersToUnknownStruct(entries) ==
    \/ \E i \in 1..Len(entries) :
          entries[i].type \notin ({"felt", "felt*"} \cup DOMAIN structs)
    \/ \E i \in 1..Len(entries) :
          /\ entries[i].type \in DOMAIN structs
          /\ RefersToUnknownStruct(structs[entries[i].type].members)

(* C6: decoding an output or struct member of a struct type that is not in  *)
(* the registry fails.                                                      *)
C6_UnknownStructFails ==
    (cpc = "parsed" /\ RefersToUnknownStruct(Outputs(method))) => decoded.err # ""

(* Outputs that are felts or registered structs of felts.                   *)
FlatOutputs(outs) ==
    \A i \in 1..Len(outs) :
        \/ outs[i].type = "felt"
        \/ /\ outs[i].type \in DOMAIN structs
           /\ \A j \in 1..Len(structs[outs[i].type].members) :
                 structs[outs[i].type].members[j].type = "felt"

Width(e) == IF e.type = "felt" THEN 1 ELSE Len(structs[e.type].members)

RECURSIVE FieldStart(_, _)
FieldStart(outs, i) == IF i = 1 THEN 0 ELSE FieldStart(outs, i - 1) + Width(outs[i - 1])

ElemAt(resp, k) == IF k <= Len(resp) THEN resp[k] ELSE Undefined

SliceOf(e, resp, s) ==
    IF e.type = "felt"
    THEN PrimV(ElemAt(resp, s + 1))
    ELSE LET ms == structs[e.type].members
         IN  ObjV([j \in 1..Len(ms) |-> Entry(ms[j].name, PrimV(ElemAt(resp, s + j)))])

Min(a, b) == IF a < b THEN a ELSE b

(* C8: one decode reads the response through one forward-only cursor: the   *)
(* positions read are 1, 2, .., pos, each once and in order; a struct of k  *)
(* felts takes the next k elements, in member order, and the next sibling   *)
(* starts right after them.                                                 *)
C8_SingleForwardCursor ==
    cpc \in {"parsed", "roundtrip"} =>
        /\ decoded.it.resp = response
        /\ decoded.it.pos <= Len(response)
        /\ decoded.it.reads = [i \in 1..decoded.it.pos |-> i]
        /\ FlatOutputs(Outputs(method)) =>
              LET outs == Outputs(method)
              IN  /\ decoded.err = ""
                  /\ decoded.it.pos = Min(Len(response), FieldStart(outs, Len(outs) + 1))
                  /\ decoded.val =
                        ObjV([i \in 1..Len(outs) |->
                                 Entry(outs[i].name, SliceOf(outs[i], response, FieldStart(outs, i)))])

C8_Witness ==
    /\ cpc = "parsed"
    /\ method = "get_point"
    /\ response = <<Hex(1), Hex(2), Hex(0)>>
    /\ decoded.it.pos = 3
    /\ decoded.val = ObjV(<<Entry("p", ObjV(<<Entry("x", PrimV(Hex(1))), Entry("y", PrimV(Hex(2)))>>)),
                            Entry("r", PrimV(Hex(0)))>>)

(***************************************************************************)
(* Contract facade: connect, invoke, call and the transport's completions. *)
(***************************************************************************)
MaxInflight == 2   \* requests the transport holds at a time

Addresses == {"0xA", "0xB"}

NotConnected == "contract isnt connected to an address"
MethodNotFound(type) ==
    (IF type = "INVOKE" THEN "invokeable" ELSE "viewable") \o " method not found in abi"

IsString(v) == v.kind = "prim" /\ v.prim.fmt \in {"dec", "hex", "text", "struct"}

(* The first assertion that fails for the elements of a felt* argument,    *)
(* with the index of the element.                                          *)
RECURSIVE FirstBadElement(_, _)
FirstBadElement(items, i) ==
    IF i > Len(items) THEN ""
    ELSE IF items[i].fmt \notin {"dec", "hex", "text", "struct"}
    THEN "[" \o ToString(i - 1) \o "] should be a felt (string) as part of a felt* (string[])"
    ELSE IF ~isFelt(items[i])
    THEN "[" \o ToString(i - 1) \o "] should be decimal or hexadecimal as part of a felt* (string[])"
    ELSE FirstBadElement(items, i + 1)

(* The assertions of one declared input against the supplied args.         *)
CheckInput(input, a) ==
    LET arg == Get(a, input.name)
    IN  IF ~Has(a, input.name) THEN ""
        ELSE IF input.type = "felt"
        THEN IF ~IsString(arg) THEN "arg " \o input.name \o " should be a felt (string)"
             ELSE IF ~isFelt(arg.prim)
             THEN "arg " \o input.name \o " should be decimal or hexadecimal"
             ELSE ""
        ELSE IF arg.kind = "obj" /\ Has(arg.fields, "type")
        THEN IF Get(arg.fields, "type") # PrimV(StructTag)
             THEN "arg " \o input.name \o " should be a struct"
             ELSE ""
        ELSE IF arg.kind # "arr"
        THEN "arg " \o input.name \o " should be a felt* (string[])"
        ELSE IF FirstBadElement(arg.items, 1) # ""
        THEN "arg " \o input.name \o FirstBadElement(arg.items, 1)
        ELSE ""

RECURSIVE CheckInputs(_, _)
CheckInputs(inputs, a) ==
    IF inputs = <<>> THEN ""
    ELSE IF CheckInput(Head(inputs), a) # "" THEN CheckInput(Head(inputs), a)
    ELSE CheckInputs(Tail(inputs), a)

(* The names of the abi's functions of the mutability class of type.       *)
InvokeableFunctionNames(type) ==
    {abi[i].name : i \in {j \in 1..Len(abi) :
        /\ abi[j].type = "function"
        /\ LET isView == abi[j].stateMutability = "view"
           IN  IF type = "INVOKE" THEN ~isView ELSE isView}}

(* A validator that looks the method up among all functions, whatever      *)
(* their mutability.                                                       *)
validateMethodAndArgsAnyMutability(type, m, a) ==
    IF m \notin FunctionNames
    THEN MethodNotFound(type)
    ELSE CheckInputs(FunctionAbiOf(m).inputs, a)

validateMethodAndArgs(type, m, a) ==
    IF m \notin InvokeableFunctionNames(type)
    THEN MethodNotFound(type)
    ELSE CheckInputs(FunctionAbiOf(m).inputs, a)

Failed(e) == [error |-> e, request |-> NoRequest]

(* The synchronous part of invoke: the error thrown, or the request handed *)
(* to provider.addTransaction.                                             *)
invoke(m, a) ==
    IF connectedTo = "null" THEN Failed(NotConnected)
    ELSE IF validateMethodAndArgs("INVOKE", m, a) # ""
    THEN Failed(validateMethodAndArgs("INVOKE", m, a))
    ELSE IF compileCalldata(a).err # "" THEN Failed(compileCalldata(a).err)
    ELSE [error |-> "",
          request |-> [type |-> "INVOKE_FUNCTION",
                       contract_address |-> connectedTo,
                       calldata |-> compileCalldata(a).val,
                       entry_point_selector |-> getSelectorFromName(m)]]

(* The synchronous part of call: the error thrown, or the request handed   *)
(* to provider.callContract.                                               *)
call(m, a) ==
    IF connectedTo = "null" THEN Failed(NotConnected)
    ELSE IF validateMethodAndArgs("CALL", m, a) # ""
    THEN Failed(validateMethodAndArgs("CALL", m, a))
    ELSE IF compileCalldata(a).err # "" THEN Failed(compileCalldata(a).err)
    ELSE [error |-> "",
          request |-> [type |-> "CALL",
                       contract_address |-> connectedTo,
                       calldata |-> compileCalldata(a).val,
                       entry_point_selector |-> getSelectorFromName(m)]]

(* A callback that decodes against the method of the latest call issued,   *)
(* as a facade keeping the method in a field of its own would.             *)
ThenCallbackLatestMethod(i, r) == parseResponse(inflight[Len(inflight)].method, r)

(* .then((x) => this.parseResponse(method, x.result)) of in-flight call i  *)
ThenCallback(i, r) == parseResponse(inflight[i].method, r)

(* What callers hand to the facade.                                        *)
FacadeMethods == {"balance_of", "mint", "aggregate", "missing"}

SampleValue(t, i) ==
    IF t = "felt" THEN PrimV(IF i % 2 = 1 THEN Hex(2) ELSE Dec(1))
    ELSE IF t = "felt*" THEN ArrV(<<Hex(2), Dec(1)>>)
    ELSE ObjV(<<Entry("type", PrimV(StructTag))>>)

SampleArgs(inputs) ==
    LET sup == SuppliedInputs(inputs)
    IN  [i \in 1..Len(sup) |-> Entry(sup[i].name, SampleValue(sup[i].type, i))]

Reversed(q) == [i \in 1..Len(q) |-> q[Len(q) + 1 - i]]

FacadeArgs(m) ==
    IF m \notin FunctionNames THEN {<<>>}
    ELSE LET sample == SampleArgs(FunctionAbiOf(m).inputs)
         IN  {sample, Reversed(sample),
              [i \in 1..Len(sample) |->
                  IF i = 1 THEN Entry(sample[i].name, PrimV(NotANumber)) ELSE sample[i]],
              [i \in 1..Len(sample) |->
                  IF sample[i].val.kind = "arr"
                  THEN Entry(sample[i].name, ArrV(<<Hex(2), NotANumber>>))
                  ELSE sample[i]]}

FacadeResponses == {<<>>, <<Hex(1)>>, <<Hex(0), Hex(2), Hex(1), Hex(2)>>}

RemoveAt(q, i) == SubSeq(q, 1, i - 1) \o SubSeq(q, i + 1, Len(q))

FacadeInit ==
    /\ abi = TheAbi
    /\ structs = StructsOf(TheAbi)
    /\ connectedTo \in {"null"} \cup Addresses
    /\ method = ""
    /\ args = <<>>
    /\ calldata = NoCalldata
    /\ response = <<>>
    /\ decoded = NoResult
    /\ cpc = "idle"
    /\ last = NoOp
    /\ inflight = <<>>
    /\ delivered = NoDelivery
    /\ SessionIdle

Connect ==
    /\ \E address \in Addresses : connectedTo' = address
    /\ UNCHANGED <<abi, structs, codecVars, facadeVars, sessionVars>>

Submit(op, m, a, outcome) ==
    /\ last' = [op |-> op, method |-> m, args |-> a, address |-> connectedTo,
                error |-> outcome.error, request |-> outcome.request]
    /\ inflight' = IF outcome.error = ""
                   THEN Append(inflight, [request |-> outcome.request, method |-> m])
                   ELSE inflight
    /\ UNCHANGED <<contractVars, codecVars, sessionVars, delivered>>

Invoke ==
    /\ Len(inflight) < MaxInflight
    /\ \E m \in FacadeMethods : \E a \in FacadeArgs(m) : Submit("INVOKE", m, a, invoke(m, a))

Call ==
    /\ Len(inflight) < MaxInflight
    /\ \E m \in FacadeMethods : \E a \in FacadeArgs(m) : Submit("CALL", m, a, call(m, a))

(* The transport acknowledges a submitted transaction.                     *)
Acknowledge ==
    /\ \E i \in 1..Len(inflight) :
        /\ inflight[i].request.type = "INVOKE_FUNCTION"
        /\ delivered' = [request |-> inflight[i].request, response |-> <<>>, result |-> NoResult]
        /\ inflight' = RemoveAt(inflight, i)
    /\ UNCHANGED <<contractVars, codecVars, sessionVars, last>>

(* The transport completes a call, in any order, and the call's callback   *)
(* decodes the result.                                                     *)
Complete ==
    /\ \E i \in 1..Len(inflight) : \E r \in FacadeResponses :
        /\ inflight[i].request.type = "CALL"
        /\ delivered' = [request |-> inflight[i].request, response |-> r,
                         result |-> ThenCallback(i, r)]
        /\ inflight' = RemoveAt(inflight, i)
    /\ UNCHANGED <<contractVars, codecVars, sessionVars, last>>

FacadeNext == Connect \/ Invoke \/ Call \/ Acknowledge \/ Complete

FacadeSpec == FacadeInit /\ [][FacadeNext]_vars

(***************************************************************************)
(* Properties of the facade.                                               *)
(***************************************************************************)
(* Some function entry of the abi in the mutability class of the request   *)
(* type has this selector.                                                 *)
SelectsFunctionOfClass(requestType, selector) ==
    \E i \in 1..Len(abi) :
        /\ abi[i].type = "function"
        /\ getSelectorFromName(abi[i].name) = selector
        /\ IF requestType = "CALL"
           THEN abi[i].stateMutability = "view"
           ELSE abi[i].stateMutability # "view"

RequestType(op) == IF op = "INVOKE" THEN "INVOKE_FUNCTION" ELSE "CALL"

GuardedOutcome ==
    /\ last.op # "none" =>
        /\ last.address = "null" => last.error = NotConnected
        /\ (/\ last.address # "null"
            /\ ~SelectsFunctionOfClass(RequestType(last.op), getSelectorFromName(last.method)))
              => last.error = MethodNotFound(last.op)
        /\ last.error = "" =>
              /\ last.address # "null"
              /\ last.request.type = RequestType(last.op)
              /\ last.request.contract_address = last.address
              /\ last.request.entry_point_selector = getSelectorFromName(last.method)
    /\ \A i \in 1..Len(inflight) :
        /\ inflight[i].request.contract_address \in Addresses
        /\ SelectsFunctionOfClass(inflight[i].request.type,
                                  inflight[i].request.entry_point_selector)

GuardedStep ==
    /\ (last' # last /\ last'.error # "") => inflight' = inflight
    /\ Len(inflight') > Len(inflight) =>
          /\ last'.error = ""
          /\ last'.address = connectedTo
          /\ connectedTo # "null"
          /\ inflight' = Append(inflight, [request |-> last'.request, method |-> last'.method])

(* C3: every request handed to the transport was issued with an address     *)
(* bound and names a function of the abi of the matching mutability class;  *)
(* an invoke / call with no address bound fails 'not connected', one (with  *)
(* an address bound) whose method is absent or of the other class fails     *)
(* 'method not found', and a failed invoke / call sends no request.         *)
C3_GuardedRequests == []GuardedOutcome /\ [][GuardedStep]_vars

C3_Witness ==
    /\ last.op = "CALL"
    /\ last.method = "mint"
    /\ last.address = "0xB"
    /\ last.error = MethodNotFound("CALL")
    /\ Len(inflight) = 1
    /\ inflight[1].request.type = "INVOKE_FUNCTION"
    /\ inflight[1].request.contract_address = "0xA"

(* The position of a name among the declared inputs (0: not declared).     *)
DeclaredAt(inputs, k) ==
    IF \E i \in 1..Len(inputs) : inputs[i].name = k
    THEN CHOOSE i \in 1..Len(inputs) : inputs[i].name = k
    ELSE 0

InDeclaredOrder(a, inputs) ==
    \A i, j \in 1..Len(a) :
        i < j => DeclaredAt(inputs, a[i].name) < DeclaredAt(inputs, a[j].name)

(* C7: an invoke / call that passes validation was given its args in the    *)
(* declared input order of its method.                                      *)
C7_DeclaredOrderEnforced ==
    (last.op # "none" /\ last.error = "") =>
        InDeclaredOrder(last.args, Inputs(last.method))

(* C9: the result handed back for a call is the decode of that call's own   *)
(* response against the outputs of that call's own method, through a cursor *)
(* over that response alone, whatever else is in flight and in whatever     *)
(* order the transport completes.                                           *)
C9_OwnResponseDecoded ==
    delivered.request.type = "CALL" =>
        \E m \in FunctionNames :
            /\ getSelectorFromName(m) = delivered.request.entry_point_selector
            /\ delivered.result = parseResponse(m, delivered.response)
            /\ delivered.result.it.resp = delivered.response
            /\ delivered.result.it.reads = [i \in 1..delivered.result.it.pos |-> i]

C9_Witness ==
    /\ delivered.request.type = "CALL"
    /\ delivered.request.entry_point_selector = getSelectorFromName("balance_of")
    /\ delivered.response = <<Hex(1)>>
    /\ delivered.result.val = ObjV(<<Entry("res", PrimV(Hex(1)))>>)
    /\ Len(inflight) = 1
    /\ inflight[1].request.type = "CALL"
    /\ inflight[1].request.entry_point_selector = getSelectorFromName("aggregate")

(***************************************************************************)
(* SessionAccount: execute and estimateFee, one step per await.            *)
(***************************************************************************)
MaxCalls == 2     \* longest list of calls handed to execute / estimateFee
MaxNonce == 1     \* nonces range over 0..MaxNonce
MaxFee   == 1     \* fees range over 0..MaxFee

AccountAddress == "0xACC"

(* Stands for the class hash numeral of the session plugin.                *)
SESSION_PLUGIN_CLASS_HASH == Hex(2)

signedSession ==
    [expires |-> Num(1), signature |-> <<Hex(1), Hex(0)>>, root |-> Hex(2)]

(* this.signer.getPubKey()                                                 *)
SignerPubKey == Hex(1)

sessionToCall(session) ==
    [contractAddress |-> AccountAddress,
     entrypoint |-> "use_plugin",
     calldata |-> compileCalldata(
         << Entry("SESSION_PLUGIN_CLASS_HASH", PrimV(SESSION_PLUGIN_CLASS_HASH)),
            Entry("signer", PrimV(SignerPubKey)),
            Entry("expires", PrimV(Dec(session.expires.n))),
            Entry("token1", PrimV(session.signature[1])),
            Entry("token2", PrimV(session.signature[2])),
            Entry("root", PrimV(session.root)),
            Entry("proof", ArrV(<<>>)) >>).val]

extendCallsBySession(calls, session) == <<sessionToCall(session)>> \o calls

(* utils/transaction fromCallsToExecuteCalldataWithNonce: the __execute__  *)
(* calldata of a list of calls and a nonce.                                *)
fromCallsToExecuteCalldataWithNonce(calls, nonce) == [calls |-> calls, nonce |-> nonce]

(* signer.signTransaction: the signature of a list of calls and its details. *)
signTransaction(transactions, signerDetails) ==
    [transactions |-> transactions, nonce |-> signerDetails.nonce,
     maxFee |-> signerDetails.maxFee, version |-> signerDetails.version]

feeTransactionVersion == "feeTransactionVersion"
transactionVersion == "transactionVersion"

UserCalls ==
    {[contractAddress |-> "0xC", entrypoint |-> "transfer", calldata |-> <<Dec(1)>>],
     [contractAddress |-> "0xC", entrypoint |-> "approve", calldata |-> <<Dec(2)>>]}

CallLists == UNION {[1..n -> UserCalls] : n \in 1..MaxCalls}

SessionInit ==
    /\ abi = TheAbi
    /\ structs = StructsOf(TheAbi)
    /\ connectedTo = "null"
    /\ method = ""
    /\ args = <<>>
    /\ calldata = NoCalldata
    /\ response = <<>>
    /\ decoded = NoResult
    /\ cpc = "idle"
    /\ last = NoOp
    /\ inflight = <<>>
    /\ delivered = NoDelivery
    /\ SessionIdle

(* execute: const transactions = await this.extendCallsBySession(...)      *)
ExecuteExtend ==
    /\ spc = "idle"
    /\ \E calls \in CallLists, nonceGiven \in BOOLEAN, maxFeeGiven \in BOOLEAN,
          nonce \in 0..MaxNonce, maxFee \in 0..MaxFee :
        exec' = [calls |-> calls,
                 nonceGiven |-> nonceGiven,
                 maxFeeGiven |-> maxFeeGiven,
                 transactions |-> extendCallsBySession(calls, signedSession),
                 nonce |-> IF nonceGiven THEN nonce ELSE 0,
                 maxFee |-> IF maxFeeGiven THEN maxFee ELSE 0,
                 estimated |-> FALSE,
                 signature |-> NoSignature]
    /\ spc' = "execute_nonce"
    /\ UNCHANGED <<contractVars, codecVars, facadeVars, est, provider>>

(* execute: the nonce given or fetched, then the fee given, or the call of *)
(* this.estimateFee(transactions, { nonce }).                              *)
ExecuteNonce ==
    /\ spc = "execute_nonce"
    /\ \E fetched \in 0..MaxNonce :
        LET nonce == IF exec.nonceGiven THEN exec.nonce ELSE fetched
        IN  /\ exec' = [exec EXCEPT !.nonce = nonce]
            /\ IF exec.maxFeeGiven
               THEN /\ spc' = "execute_sign"
                    /\ est' = est
               ELSE /\ spc' = "estimate_extend"
                    /\ est' = [caller |-> "execute", calls |-> exec.transactions,
                               nonceGiven |-> TRUE, transactions |-> NoCalls,
                               nonce |-> nonce, signature |-> NoSignature]
    /\ UNCHANGED <<contractVars, codecVars, facadeVars, provider>>

(* estimateFee called by the account's user.                               *)
EstimateFee ==
    /\ spc = "idle"
    /\ \E calls \in CallLists, nonceGiven \in BOOLEAN, nonce \in 0..MaxNonce :
        est' = [caller |-> "user", calls |-> calls, nonceGiven |-> nonceGiven,
                transactions |-> NoCalls,
                nonce |-> IF nonceGiven THEN nonce ELSE 0,
                signature |-> NoSignature]
    /\ spc' = "estimate_extend"
    /\ UNCHANGED <<contractVars, codecVars, facadeVars, exec, provider>>

(* estimateFee: const transactions = await this.extendCallsBySession(...)  *)
EstimateExtend ==
    /\ spc = "estimate_extend"
    /\ est' = [est EXCEPT !.transactions = extendCallsBySession(est.calls, signedSession)]
    /\ spc' = "estimate_nonce"
    /\ UNCHANGED <<contractVars, codecVars, facadeVars, exec, provider>>

(* estimateFee: const nonce = providedNonce ?? (await this.getNonce())     *)
EstimateNonce ==
    /\ spc = "estimate_nonce"
    /\ \E fetched \in 0..MaxNonce :
        est' = [est EXCEPT !.nonce = IF est.nonceGiven THEN est.nonce ELSE fetched]
    /\ spc' = "estimate_sign"
    /\ UNCHANGED <<contractVars, codecVars, facadeVars, exec, provider>>

(* estimateFee: await this.signer.signTransaction(transactions, signerDetails) *)
EstimateSign ==
    /\ spc = "estimate_sign"
    /\ est' = [est EXCEPT !.signature =
                  signTransaction(est.transactions,
                                  [nonce |-> est.nonce, maxFee |-> 0,
                                   version |-> feeTransactionVersion])]
    /\ spc' = "estimate_request"
    /\ UNCHANGED <<contractVars, codecVars, facadeVars, exec, provider>>

(* estimateFee: await super.getEstimateFee(...), and the suggested fee      *)
(* ceiling handed back to the caller.                                       *)
EstimateRequest ==
    /\ spc = "estimate_request"
    /\ provider' = [provider EXCEPT !.estimateFee =
                       [sent |-> TRUE,
                        calldata |-> fromCallsToExecuteCalldataWithNonce(est.transactions, est.nonce),
                        signature |-> est.signature,
                        maxFee |-> 0,
                        version |-> feeTransactionVersion]]
    /\ \E suggestedMaxFee \in 0..MaxFee :
        IF est.caller = "execute"
        THEN /\ exec' = [exec EXCEPT !.maxFee = suggestedMaxFee, !.estimated = TRUE]
             /\ spc' = "execute_sign"
        ELSE /\ exec' = exec
             /\ spc' = "done"
    /\ UNCHANGED <<contractVars, codecVars, facadeVars, est>>

(* execute: await this.signer.signTransaction(transactions, signerDetails, abis) *)
ExecuteSign ==
    /\ spc = "execute_sign"
    /\ exec' = [exec EXCEPT !.signature =
                   signTransaction(exec.transactions,
                                   [nonce |-> exec.nonce, maxFee |-> exec.maxFee,
                                    version |-> transactionVersion])]
    /\ spc' = "execute_submit"
    /\ UNCHANGED <<contractVars, codecVars, facadeVars, est, provider>>

(* execute: return this.invokeFunction({... calldata, signature}, {maxFee, version}) *)
ExecuteSubmit ==
    /\ spc = "execute_submit"
    /\ provider' = [provider EXCEPT !.invokeFunction =
                       [sent |-> TRUE,
                        calldata |-> fromCallsToExecuteCalldataWithNonce(exec.transactions, exec.nonce),
                        signature |-> exec.signature,
                        maxFee |-> exec.maxFee,
                        version |-> transactionVersion]]
    /\ spc' = "done"
    /\ UNCHANGED <<contractVars, codecVars, facadeVars, exec, est>>

SessionNext ==
    \/ ExecuteExtend \/ ExecuteNonce \/ ExecuteSign \/ ExecuteSubmit
    \/ EstimateFee \/ EstimateExtend \/ EstimateNonce \/ EstimateSign \/ EstimateRequest

SessionSpec == SessionInit /\ [][SessionNext]_vars

(* C10: when execute obtains the fee itself, the list whose fee is          *)
(* estimated is the list it signs and submits: one use_plugin call followed *)
(* by the caller's calls in their order, with the same nonce in both steps. *)
C10_EstimatedIsSubmitted ==
    (spc = "done" /\ exec.estimated) =>
        /\ provider.estimateFee.sent /\ provider.invokeFunction.sent
        /\ provider.invokeFunction.calldata.calls
              = <<sessionToCall(signedSession)>> \o exec.calls
        /\ provider.invokeFunction.signature.transactions
              = provider.invokeFunction.calldata.calls
        /\ provider.estimateFee.calldata.calls = provider.invokeFunction.calldata.calls
        /\ provider.estimateFee.signature.transactions
              = provider.invokeFunction.signature.transactions
        /\ provider.estimateFee.calldata.nonce = provider.invokeFunction.calldata.nonce
        /\ provider.estimateFee.signature.nonce = provider.invokeFunction.signature.nonce

====
